---------------------------- MODULE Spec2Model ----------------------------
(***************************************************************************)
(* A model of two pieces of torchrec:                                      *)
(*                                                                         *)
(*   - NoopPerfModel (torchrec/distributed/planner/perf_models.py): the    *)
(*     planner's performance model.  rate(plan) adds every shard's perf to *)
(*     the total of the worker the shard is placed on and returns the      *)
(*     largest total.                                                      *)
(*   - SimpleDeepFMNN and FMInteractionArch (torchrec/models/deepfm.py):   *)
(*     the constructor's checks of the embedding bag configs, and the      *)
(*     sizes of the tensors that forward passes from one arch to the next. *)
(*                                                                         *)
(* Tensors are modelled by their sizes (rows X columns); a Python list is  *)
(* a sequence, so list index k is sequence position k + 1.                 *)
(***************************************************************************)
EXTENDS Integers, Sequences, FiniteSets

\* ------------------------------------------------------------------ bounds

\* Topologies have world_size 0..MaxWorld.
MaxWorld == 2
\* A plan holds at most MaxOptions sharding options.
MaxOptions == 2
\* A plan holds at most MaxShards shards, over all its sharding options.
MaxShards == 2

\* An EmbeddingBagCollection holds at most MaxConfigs embedding bag configs.
MaxConfigs == 3
\* An embedding bag config has an embedding_dim of 1..MaxDim.
MaxDim == 2
\* An embedding bag config names at most MaxFeatures features.
MaxFeatures == 2

\* The perf values a shard may carry (integers; a negative one included).
PerfValues == {-1, 2}
\* The ranks a shard may carry in a plan rated for a topology: the ranks of
\* the topology, the negative indices of a list that long, and one past
\* either end.
RanksFor(t) == -(t.world_size + 1) .. t.world_size

\* The constructor arguments of SimpleDeepFMNN other than the collection.
DenseFeatureCounts == {1, 3}
HiddenLayerSizes == {2}
DeepFMDimensions == {1, 3}
\* The batch sizes B of a forward call.
BatchSizes == {1, 2}

VARIABLES
    topology,     \* NoopPerfModel._topology: [world_size]
    plan,         \* the argument of the rate call in progress
    perfs,        \* rate's local list perfs
    oi,           \* position of sharding_option in plan (outer loop)
    si,           \* position of shard in sharding_option.shards (inner loop)
    ppc,          \* where the NoopPerfModel is: "new" (not constructed), "idle",
                  \* and in rate "loop", "returned", "raised"
    result,       \* the value the rate call returned
    perror,       \* the exception the rate call raised, or "none"
    earlier       \* whether a rate call on this instance has ended before

VARIABLES
    configs,      \* embedding_bag_collection.embedding_bag_configs
    cargs,        \* num_dense_features, hidden_layer_size, deep_fm_dimension
    fpc,          \* where SimpleDeepFMNN is, in __init__ and in forward
    ci,           \* __init__: i of the loop over adjacent configs
    reads,        \* __init__: the list indices of the configs read so far
    embedding_dim,    \* __init__: embedding_dim
    feature_names,    \* __init__: feature_names
    fm_in_features,   \* __init__: fm_in_features
    archs,        \* self.sparse_arch, dense_arch, inter_arch, over_arch
    ferror,       \* the exception __init__ or forward raised, or "none"
    dense_features,      \* forward: the size of dense_features
    embedded_dense,      \* forward: the size of embedded_dense
    embedded_sparse,     \* forward: the KeyedTensor embedded_sparse
    concatenated_dense,  \* forward: the size of concatenated_dense
    logits               \* forward: the size of logits

pvars == <<topology, plan, perfs, oi, si, ppc, result, perror, earlier>>

fvars == <<configs, cargs, fpc, ci, reads, embedding_dim, feature_names,
           fm_in_features, archs, ferror, dense_features, embedded_dense,
           embedded_sparse, concatenated_dense, logits>>

vars == <<pvars, fvars>>

\* --------------------------------------------------------- helper operators

Range(s) == {s[k] : k \in 1..Len(s)}

SeqsUpTo(S, n) == UNION {[1..k -> S] : k \in 0..n}

RECURSIVE SumSeq(_)
SumSeq(s) == IF Len(s) = 0 THEN 0 ELSE s[1] + SumSeq(Tail(s))

\* ------------------------------------------------- planner types (inputs)

Shards(t) == [rank : RanksFor(t), perf : PerfValues]

\* The plan that holds the shards of flat in sharding options of lengths lens.
RECURSIVE PlanOf(_, _)
PlanOf(flat, lens) ==
    IF Len(lens) = 0 THEN <<>>
    ELSE <<[shards |-> SubSeq(flat, 1, lens[1])]>>
            \o PlanOf(SubSeq(flat, lens[1] + 1, Len(flat)), Tail(lens))

\* The lengths of the sharding options of a plan: at most MaxOptions
\* sharding options, of at most MaxShards shards in all.
OptionLengths ==
    {lens \in SeqsUpTo(0..MaxShards, MaxOptions) : SumSeq(lens) <= MaxShards}

\* Every plan of at most MaxOptions sharding options and MaxShards shards
\* that may be rated for topology t.
Plans(t) ==
    {PlanOf(fl[1], fl[2]) :
        fl \in UNION {[1..SumSeq(lens) -> Shards(t)] \X {lens} :
                         lens \in OptionLengths}}

Topologies == [world_size : 0..MaxWorld]

\* Plans, by world_size.
PlansByWorld == [n \in 0..MaxWorld |-> Plans([world_size |-> n])]

\* ------------------------------------------------------ NoopPerfModel.rate

\* A bug: perfs kept from one call to the next (a list of the instance that
\* is not set to zeros again).
InitPerfsKept(n) == IF Len(perfs) = n THEN perfs ELSE [k \in 1..n |-> 0]

\* perfs = [0] * world_size
InitPerfs(n) == [k \in 1..n |-> 0]

\* A bug: negative indices refused.
IndexOkFromZero(r, n) == r >= 0 /\ r < n

\* Whether Python accepts index r on a list of length n.
IndexOk(r, n) == r >= -n /\ r < n

\* The position list index r names in a list of length n (negative indices
\* count from the end of the list).
Slot(r, n) == IF r >= 0 THEN r + 1 ELSE n + r + 1

\* A bug: = for +=.
AddPerfAssigned(ps, shard) ==
    [ps EXCEPT ![Slot(shard.rank, Len(ps))] = shard.perf]

\* perfs[shard.rank] += shard.perf
AddPerf(ps, shard) ==
    [ps EXCEPT ![Slot(shard.rank, Len(ps))] = @ + shard.perf]

\* A bug: perfs[0] for max(perfs).
MaxOfFirst(ps) == ps[1]

\* A bug: min for max.
MaxOfMin(ps) == CHOOSE m \in Range(ps) : \A x \in Range(ps) : m <= x

\* max(perfs), of a non-empty list
MaxOf(ps) == CHOOSE m \in Range(ps) : \A x \in Range(ps) : x <= m

\* The two loops of rate over the shards of one sharding option, from
\* position k on: the list of totals, or an IndexError.
RECURSIVE RateShards(_, _, _)
RateShards(acc, shards, k) ==
    IF ~acc.ok \/ k > Len(shards) THEN acc
    ELSE IF ~IndexOk(shards[k].rank, Len(acc.perfs))
         THEN [ok |-> FALSE, perfs |-> acc.perfs, error |-> "IndexError"]
         ELSE RateShards([acc EXCEPT !.perfs = AddPerf(acc.perfs, shards[k])],
                         shards, k + 1)

RECURSIVE RateOptions(_, _, _)
RateOptions(acc, p, k) ==
    IF ~acc.ok \/ k > Len(p) THEN acc
    ELSE RateOptions(RateShards(acc, p[k].shards, 1), p, k + 1)

\* rate(plan) on a NoopPerfModel of topology t, as one function: what the
\* call returns ([ok |-> TRUE, value]) or raises ([ok |-> FALSE, error]).
rate(t, p) ==
    LET acc == RateOptions([ok |-> TRUE, perfs |-> [k \in 1..t.world_size |-> 0],
                            error |-> "none"], p, 1)
    IN  IF ~acc.ok THEN [ok |-> FALSE, value |-> 0, error |-> acc.error]
        ELSE IF Len(acc.perfs) = 0
             THEN [ok |-> FALSE, value |-> 0, error |-> "ValueError"]
             ELSE [ok |-> TRUE, value |-> MaxOf(acc.perfs), error |-> "none"]

\* ---- rate, step by step

\* NoopPerfModel(topology): self._topology = topology
New ==
    /\ ppc = "new"
    /\ \E t \in Topologies : topology' = t
    /\ ppc' = "idle"
    /\ UNCHANGED <<plan, perfs, oi, si, result, perror, earlier, fvars>>

\* rate(plan) is called: perfs = [0] * self._topology.world_size
Call ==
    /\ ppc = "idle"
    /\ \E p \in PlansByWorld[topology.world_size] : plan' = p
    /\ perfs' = InitPerfs(topology.world_size)
    /\ oi' = 1
    /\ si' = 1
    /\ ppc' = "loop"
    /\ result' = 0
    /\ perror' = "none"
    /\ UNCHANGED <<topology, earlier, fvars>>

\* for shard in sharding_option.shards: exhausted, the outer loop moves on
NextOption ==
    /\ ppc = "loop"
    /\ oi <= Len(plan)
    /\ si > Len(plan[oi].shards)
    /\ oi' = oi + 1
    /\ si' = 1
    /\ UNCHANGED <<topology, plan, perfs, ppc, result, perror, earlier, fvars>>

\* perfs[shard.rank] += shard.perf, the index accepted
AddShard ==
    /\ ppc = "loop"
    /\ oi <= Len(plan)
    /\ si <= Len(plan[oi].shards)
    /\ IndexOk(plan[oi].shards[si].rank, Len(perfs))
    /\ perfs' = AddPerf(perfs, plan[oi].shards[si])
    /\ si' = si + 1
    /\ UNCHANGED <<topology, plan, oi, ppc, result, perror, earlier, fvars>>

\* perfs[shard.rank] += shard.perf, the index out of range
RaiseIndexError ==
    /\ ppc = "loop"
    /\ oi <= Len(plan)
    /\ si <= Len(plan[oi].shards)
    /\ ~IndexOk(plan[oi].shards[si].rank, Len(perfs))
    /\ ppc' = "raised"
    /\ perror' = "IndexError"
    /\ UNCHANGED <<topology, plan, perfs, oi, si, result, earlier, fvars>>

\* return max(perfs)
Return ==
    /\ ppc = "loop"
    /\ oi > Len(plan)
    /\ Len(perfs) > 0
    /\ result' = MaxOf(perfs)
    /\ ppc' = "returned"
    /\ UNCHANGED <<topology, plan, perfs, oi, si, perror, earlier, fvars>>

\* return max(perfs), perfs empty: max() raises ValueError
RaiseValueError ==
    /\ ppc = "loop"
    /\ oi > Len(plan)
    /\ Len(perfs) = 0
    /\ ppc' = "raised"
    /\ perror' = "ValueError"
    /\ UNCHANGED <<topology, plan, perfs, oi, si, result, earlier, fvars>>

\* The call is over: the caller has the value or the exception, and rate's
\* frame is gone with its binding of plan.  Nothing reads what the locals
\* held before the next call assigns them.
Exit ==
    /\ ppc \in {"returned", "raised"}
    /\ ppc' = "idle"
    /\ plan' = <<>>
    /\ oi' = 1
    /\ si' = 1
    /\ result' = 0
    /\ perror' = "none"
    /\ earlier' = TRUE
    /\ UNCHANGED <<topology, perfs, fvars>>

\* ------------------------------------------------------------------------
\* torchrec/models/deepfm.py
\* ------------------------------------------------------------------------

\* A tensor is its size, rows X cols; a KeyedTensor is its keys, the width
\* of each key's slice, and its rows.
NoTensor == [rows |-> 0, cols |-> 0]

NoKeyedTensor == [keys |-> <<>>, length_per_key |-> <<>>, rows |-> 0]

NoArchs ==
    [sparse_arch |-> [built |-> FALSE],
     dense_arch |-> [built |-> FALSE, in_features |-> 0,
                     hidden_layer_size |-> 0, embedding_dim |-> 0],
     inter_arch |-> [built |-> FALSE, fm_in_features |-> 0,
                     sparse_feature_names |-> <<>>, deep_fm_dimension |-> 0],
     over_arch |-> [built |-> FALSE, in_features |-> 0]]

AtLeastOneMsg == "AssertionError: At least one embedding bag is required"

SameDimensionMsg ==
    "AssertionError: All EmbeddingBagConfigs must have the same dimension"

\* The names of the n features of the k-th config: <<k, 1>> .. <<k, n>>.
RECURSIVE NamesOf(_, _)
NamesOf(k, n) == IF n = 0 THEN <<>> ELSE Append(NamesOf(k, n - 1), <<k, n>>)

\* The list of the configs from the k-th on, of embedding_dim d[k] and of
\* f[k] features each.
RECURSIVE ConfigsOf(_, _, _)
ConfigsOf(d, f, k) ==
    IF k > Len(d) THEN <<>>
    ELSE <<[embedding_dim |-> d[k], feature_names |-> NamesOf(k, f[k])]>>
            \o ConfigsOf(d, f, k + 1)

\* Every list of at most MaxConfigs embedding bag configs.
ConfigLists ==
    {ConfigsOf(df[1], df[2], 1) :
        df \in UNION {[1..n -> 1..MaxDim] \X [1..n -> 0..MaxFeatures] :
                         n \in 0..MaxConfigs}}

CtorArgs ==
    [num_dense_features : DenseFeatureCounts,
     hidden_layer_size : HiddenLayerSizes,
     deep_fm_dimension : DeepFMDimensions]

\* nn.Linear(in_features, out_features) takes a tensor of in_features columns
\* and gives one of out_features columns with the same rows.
LinearTakes(in_features, x) == x.cols = in_features

Linear(out_features, x) == [rows |-> x.rows, cols |-> out_features]

\* ---- SimpleDeepFMNN.__init__

\* A bug: >= for >.
HasConfigsOrNone(cfgs) == Len(cfgs) >= 0

\* len(embedding_bag_collection.embedding_bag_configs) > 0
HasConfigs(cfgs) == Len(cfgs) > 0

\* A bug: the loop ends one pair early.
DimLoopRangeShort(n) == 1..(n - 2)

\* range(1, len(embedding_bag_collection.embedding_bag_configs))
DimLoopRange(n) == 1..(n - 1)

\* conf_prev.embedding_dim == conf.embedding_dim
DimsAgree(conf_prev, conf) == conf_prev.embedding_dim = conf.embedding_dim

\* feature_names after the loop over the configs from position k on
RECURSIVE CollectedNames(_, _)
CollectedNames(cfgs, k) ==
    IF k > Len(cfgs) THEN <<>>
    ELSE cfgs[k].feature_names \o CollectedNames(cfgs, k + 1)

\* what the loop over the configs from position k on adds to fm_in_features:
\* conf.embedding_dim for every feature of every conf
RECURSIVE CollectedWidth(_, _)
CollectedWidth(cfgs, k) ==
    IF k > Len(cfgs) THEN 0
    ELSE Len(cfgs[k].feature_names) * cfgs[k].embedding_dim
            + CollectedWidth(cfgs, k + 1)

\* SimpleDeepFMNN(...) is called: super().__init__()
Construct ==
    /\ fpc = "new"
    /\ \E cfgs \in ConfigLists : configs' = cfgs
    /\ \E a \in CtorArgs : cargs' = a
    /\ fpc' = "assert_nonempty"
    /\ UNCHANGED <<ci, reads, embedding_dim, feature_names, fm_in_features,
                   archs, ferror, dense_features, embedded_dense,
                   embedded_sparse, concatenated_dense, logits, pvars>>

\* assert len(...) > 0, "At least one embedding bag is required"
AssertNonEmpty ==
    /\ fpc = "assert_nonempty"
    /\ IF HasConfigs(configs)
       THEN /\ fpc' = "dim_loop"
            /\ ci' = 1
            /\ UNCHANGED ferror
       ELSE /\ fpc' = "failed"
            /\ ferror' = AtLeastOneMsg
            /\ UNCHANGED ci
    /\ UNCHANGED <<configs, cargs, reads, embedding_dim, feature_names,
                   fm_in_features, archs, dense_features, embedded_dense,
                   embedded_sparse, concatenated_dense, logits, pvars>>

\* One turn of the loop: conf_prev = configs[i - 1], conf = configs[i], and
\* the assert that their dimensions are the same.
DimLoop ==
    /\ fpc = "dim_loop"
    /\ ci \in DimLoopRange(Len(configs))
    /\ reads' = reads \cup {ci - 1, ci}
    /\ IF DimsAgree(configs[ci], configs[ci + 1])
       THEN /\ ci' = ci + 1
            /\ UNCHANGED <<fpc, ferror>>
       ELSE /\ fpc' = "failed"
            /\ ferror' = SameDimensionMsg
            /\ UNCHANGED ci
    /\ UNCHANGED <<configs, cargs, embedding_dim, feature_names,
                   fm_in_features, archs, dense_features, embedded_dense,
                   embedded_sparse, concatenated_dense, logits, pvars>>

\* The loop is over: embedding_dim = configs[0].embedding_dim
ReadEmbeddingDim ==
    /\ fpc = "dim_loop"
    /\ ci \notin DimLoopRange(Len(configs))
    /\ IF Len(configs) = 0
       THEN /\ fpc' = "failed"
            /\ ferror' = "IndexError"
            /\ UNCHANGED <<reads, embedding_dim>>
       ELSE /\ embedding_dim' = configs[1].embedding_dim
            /\ reads' = reads \cup {0}
            /\ fpc' = "features"
            /\ UNCHANGED ferror
    /\ UNCHANGED <<configs, cargs, ci, feature_names, fm_in_features, archs,
                   dense_features, embedded_dense, embedded_sparse,
                   concatenated_dense, logits, pvars>>

\* feature_names = [], fm_in_features = embedding_dim, and the loop over the
\* configs and their feature names
CollectFeatures ==
    /\ fpc = "features"
    /\ feature_names' = CollectedNames(configs, 1)
    /\ fm_in_features' = embedding_dim + CollectedWidth(configs, 1)
    /\ reads' = reads \cup (0..(Len(configs) - 1))
    /\ fpc' = "build"
    /\ UNCHANGED <<configs, cargs, ci, embedding_dim, archs, ferror,
                   dense_features, embedded_dense, embedded_sparse,
                   concatenated_dense, logits, pvars>>

\* self.sparse_arch, self.dense_arch, self.inter_arch, self.over_arch
BuildArchs ==
    /\ fpc = "build"
    /\ archs' =
          [sparse_arch |-> [built |-> TRUE],
           dense_arch |-> [built |-> TRUE,
                           in_features |-> cargs.num_dense_features,
                           hidden_layer_size |-> cargs.hidden_layer_size,
                           embedding_dim |-> embedding_dim],
           inter_arch |-> [built |-> TRUE,
                           fm_in_features |-> fm_in_features,
                           sparse_feature_names |-> feature_names,
                           deep_fm_dimension |-> cargs.deep_fm_dimension],
           over_arch |-> [built |-> TRUE,
                          in_features |->
                              embedding_dim + cargs.deep_fm_dimension + 1]]
    /\ fpc' = "constructed"
    /\ UNCHANGED <<configs, cargs, ci, reads, embedding_dim, feature_names,
                   fm_in_features, ferror, dense_features, embedded_dense,
                   embedded_sparse, concatenated_dense, logits, pvars>>

\* ---- the archs' forward

\* DenseArch.forward: Linear, ReLU, Linear, ReLU
DenseArchTakes(arch, x) == LinearTakes(arch.in_features, x)

DenseArchForward(arch, x) ==
    Linear(arch.embedding_dim, Linear(arch.hidden_layer_size, x))

\* SparseArch.forward: the collection's KeyedTensor for a batch of b rows,
\* with one slice per feature name, as wide as its config's embedding_dim.
RECURSIVE KeyWidths(_, _)
KeyWidths(cfgs, k) ==
    IF k > Len(cfgs) THEN <<>>
    ELSE [j \in 1..Len(cfgs[k].feature_names) |-> cfgs[k].embedding_dim]
            \o KeyWidths(cfgs, k + 1)

SparseArchForward(cfgs, b) ==
    [keys |-> CollectedNames(cfgs, 1),
     length_per_key |-> KeyWidths(cfgs, 1),
     rows |-> b]

\* sparse_features[feature_name]
KeyedSlice(kt, name) ==
    LET k == CHOOSE i \in 1..Len(kt.keys) : kt.keys[i] = name
    IN  [rows |-> kt.rows, cols |-> kt.length_per_key[k]]

\* tensor_list: dense_features, then the slice of every sparse feature name
TensorList(dense, kt, names) ==
    <<dense>> \o [k \in 1..Len(names) |-> KeyedSlice(kt, names[k])]

\* DeepFM.forward: the tensors flattened and concatenated along dim 1, then
\* the dense module, Linear(fm_in_features, deep_fm_dimension) and ReLU.
DeepFMInput(tensor_list) ==
    [rows |-> tensor_list[1].rows,
     cols |-> SumSeq([k \in 1..Len(tensor_list) |-> tensor_list[k].cols])]

DeepFMForward(arch, tensor_list) ==
    Linear(arch.deep_fm_dimension, DeepFMInput(tensor_list))

\* FactorizationMachine.forward: one column per row.
FMForward(tensor_list) == [rows |-> tensor_list[1].rows, cols |-> 1]

\* torch.cat(tensors, dim=1)
CatDim1(tensors) ==
    [rows |-> tensors[1].rows,
     cols |-> SumSeq([k \in 1..Len(tensors) |-> tensors[k].cols])]

\* OverArch.forward: Linear(in_features, 1), Sigmoid
OverArchTakes(arch, x) == LinearTakes(arch.in_features, x)

OverArchForward(arch, x) == Linear(1, x)

\* ---- SimpleDeepFMNN.forward

\* forward is called on a batch: embedded_dense = self.dense_arch(dense_features)
ForwardDense ==
    /\ fpc = "constructed"
    /\ \E b \in BatchSizes :
          LET x == [rows |-> b, cols |-> cargs.num_dense_features]
          IN  /\ dense_features' = x
              /\ IF DenseArchTakes(archs.dense_arch, x)
                 THEN /\ embedded_dense' = DenseArchForward(archs.dense_arch, x)
                      /\ fpc' = "sparse"
                      /\ UNCHANGED ferror
                 ELSE /\ fpc' = "failed"
                      /\ ferror' = "RuntimeError"
                      /\ UNCHANGED embedded_dense
    /\ UNCHANGED <<configs, cargs, ci, reads, embedding_dim, feature_names,
                   fm_in_features, archs, embedded_sparse,
                   concatenated_dense, logits, pvars>>

\* embedded_sparse = self.sparse_arch(sparse_features)
ForwardSparse ==
    /\ fpc = "sparse"
    /\ embedded_sparse' = SparseArchForward(configs, dense_features.rows)
    /\ fpc' = "inter"
    /\ UNCHANGED <<configs, cargs, ci, reads, embedding_dim, feature_names,
                   fm_in_features, archs, ferror, dense_features,
                   embedded_dense, concatenated_dense, logits, pvars>>

\* FMInteractionArch.forward, no sparse feature name: return dense_features
ForwardInterNoSparse ==
    /\ fpc = "inter"
    /\ Len(archs.inter_arch.sparse_feature_names) = 0
    /\ concatenated_dense' = embedded_dense
    /\ fpc' = "over"
    /\ UNCHANGED <<configs, cargs, ci, reads, embedding_dim, feature_names,
                   fm_in_features, archs, ferror, dense_features,
                   embedded_dense, embedded_sparse, logits, pvars>>

\* FMInteractionArch.forward: torch.cat([dense_features, deep_interaction,
\* fm_interaction], dim=1)
ForwardInter ==
    /\ fpc = "inter"
    /\ Len(archs.inter_arch.sparse_feature_names) # 0
    /\ LET tensor_list == TensorList(embedded_dense, embedded_sparse,
                                     archs.inter_arch.sparse_feature_names)
       IN  IF LinearTakes(archs.inter_arch.fm_in_features,
                          DeepFMInput(tensor_list))
           THEN /\ concatenated_dense' =
                      CatDim1(<<embedded_dense,
                                DeepFMForward(archs.inter_arch, tensor_list),
                                FMForward(tensor_list)>>)
                /\ fpc' = "over"
                /\ UNCHANGED ferror
           ELSE /\ fpc' = "failed"
                /\ ferror' = "RuntimeError"
                /\ UNCHANGED concatenated_dense
    /\ UNCHANGED <<configs, cargs, ci, reads, embedding_dim, feature_names,
                   fm_in_features, archs, dense_features, embedded_dense,
                   embedded_sparse, logits, pvars>>

\* logits = self.over_arch(concatenated_dense)
ForwardOver ==
    /\ fpc = "over"
    /\ IF OverArchTakes(archs.over_arch, concatenated_dense)
       THEN /\ logits' = OverArchForward(archs.over_arch, concatenated_dense)
            /\ fpc' = "done"
            /\ UNCHANGED ferror
       ELSE /\ fpc' = "failed"
            /\ ferror' = "RuntimeError"
            /\ UNCHANGED logits
    /\ UNCHANGED <<configs, cargs, ci, reads, embedding_dim, feature_names,
                   fm_in_features, archs, dense_features, embedded_dense,
                   embedded_sparse, concatenated_dense, pvars>>

\* ------------------------------------------------------------------------
\* Specifications
\* ------------------------------------------------------------------------

\* Nothing is constructed yet.
Init ==
    /\ topology = [world_size |-> 0]
    /\ plan = <<>>
    /\ perfs = <<>>
    /\ oi = 1
    /\ si = 1
    /\ ppc = "new"
    /\ result = 0
    /\ perror = "none"
    /\ earlier = FALSE
    /\ configs = <<>>
    /\ cargs = [num_dense_features |-> 0, hidden_layer_size |-> 0,
                deep_fm_dimension |-> 0]
    /\ fpc = "new"
    /\ ci = 0
    /\ reads = {}
    /\ embedding_dim = 0
    /\ feature_names = <<>>
    /\ fm_in_features = 0
    /\ archs = NoArchs
    /\ ferror = "none"
    /\ dense_features = NoTensor
    /\ embedded_dense = NoTensor
    /\ embedded_sparse = NoKeyedTensor
    /\ concatenated_dense = NoTensor
    /\ logits = NoTensor

\* One NoopPerfModel and the rate calls on it.
Next ==
    \/ New
    \/ Call
    \/ NextOption
    \/ AddShard
    \/ RaiseIndexError
    \/ Return
    \/ RaiseValueError
    \/ Exit

Spec == Init /\ [][Next]_vars

\* One SimpleDeepFMNN: its construction and a forward call.
NextFM ==
    \/ Construct
    \/ AssertNonEmpty
    \/ DimLoop
    \/ ReadEmbeddingDim
    \/ CollectFeatures
    \/ BuildArchs
    \/ ForwardDense
    \/ ForwardSparse
    \/ ForwardInterNoSparse
    \/ ForwardInter
    \/ ForwardOver

SpecFM == Init /\ [][NextFM]_vars

\* ------------------------------------------------------------------------
\* Properties of NoopPerfModel.rate
\* ------------------------------------------------------------------------

\* The call in progress has come to its end, by a value or by an exception.
RateDone == ppc \in {"returned", "raised"}

\* The positions <<i, j>> of the shards of plan p.
ShardPositions(p) ==
    UNION {{<<i, j>> : j \in 1..Len(p[i].shards)} : i \in 1..Len(p)}

ShardAt(p, x) == p[x[1]].shards[x[2]]

\* The sum of the perfs of the shards of p at the positions S.
RECURSIVE PerfSum(_, _)
PerfSum(p, S) ==
    IF S = {} THEN 0
    ELSE LET x == CHOOSE y \in S : TRUE
         IN  ShardAt(p, x).perf + PerfSum(p, S \ {x})

\* The sum of shard.perf over the shards of p with shard.rank = r.
RankTotal(p, r) ==
    PerfSum(p, {x \in ShardPositions(p) : ShardAt(p, x).rank = r})

\* The largest member of a non-empty set of integers.
Largest(S) == CHOOSE m \in S : \A x \in S : x <= m

\* Every shard of p has a rank in 0..world_size-1.
RanksInRange(t, p) ==
    \A x \in ShardPositions(p) : ShardAt(p, x).rank \in 0..(t.world_size - 1)

NonNegativePerfs(p) == \A x \in ShardPositions(p) : ShardAt(p, x).perf >= 0

\* C1: with world_size >= 1 and every shard's rank in 0..world_size-1, rate
\* returns the maximum over the ranks r of 0..world_size-1 of the sum of the
\* perfs of the shards of rank r, a rank with no shard counting as 0.
C1_RateIsMaxRankTotal ==
    (RateDone /\ topology.world_size >= 1 /\ RanksInRange(topology, plan))
        => /\ ppc = "returned"
           /\ result = Largest({RankTotal(plan, r) :
                                    r \in 0..(topology.world_size - 1)})

\* A call returned 4 on two workers: the total of two shards of perf 2, one
\* in each sharding option, beat the other worker's, which holds no shard
\* and counts as 0.
C1_Witness ==
    /\ ppc = "returned"
    /\ topology.world_size = 2
    /\ RanksInRange(topology, plan)
    /\ Len(plan) = 2
    /\ Len(plan[1].shards) = 1
    /\ Len(plan[2].shards) = 1
    /\ result = 4

\* C2: every call on one instance ends as the same call on a fresh instance
\* would (the same value, or the same exception), whatever calls came
\* before; no step of a call changes the plan, and no step after the
\* construction changes the topology.
C2_CallStep ==
    /\ (ppc # "new" => topology' = topology)
    /\ (ppc = "loop" => plan' = plan)
    /\ (ppc = "loop" /\ ppc' = "returned"
            => rate(topology, plan).ok /\ result' = rate(topology, plan).value)
    /\ (ppc = "loop" /\ ppc' = "raised"
            => ~rate(topology, plan).ok /\ perror' = rate(topology, plan).error)

C2_RateIsPure == [][C2_CallStep]_vars

\* A later call on the same instance returned, of a plan with shards.
C2_Witness ==
    /\ earlier
    /\ ppc = "returned"
    /\ ShardPositions(plan) # {}
    /\ result = 2

\* C7, as stated: whenever world_size = 0 or some shard's rank is outside
\* 0..world_size-1, rate raises.
C7_RaisesOutsideZeroToWorldSize ==
    (RateDone /\ (topology.world_size = 0 \/ ~RanksInRange(topology, plan)))
        => ppc = "raised"

\* The sum of shard.perf over the shards of p that list index w of a list of
\* length n takes: those of rank w and those of rank w - n.
WorkerTotal(p, w, n) ==
    PerfSum(p, {x \in ShardPositions(p) : ShardAt(p, x).rank \in {w, w - n}})

\* C7, amended: rate raises exactly when world_size = 0 or some shard's rank
\* is >= world_size or < -world_size; a shard of rank -world_size..-1 raises
\* nothing, and its perf is added to the total of worker world_size + rank.
C7_RaisesOutsideIndexRange ==
    RateDone =>
        /\ ppc = "raised" <=>
              \/ topology.world_size = 0
              \/ \E x \in ShardPositions(plan) :
                    \/ ShardAt(plan, x).rank >= topology.world_size
                    \/ ShardAt(plan, x).rank < -topology.world_size
        /\ ppc = "returned" =>
              result = Largest({WorkerTotal(plan, w, topology.world_size) :
                                    w \in 0..(topology.world_size - 1)})

\* A call returned although a shard has rank -1: its perf 2 went to worker 1
\* together with that of a shard of rank 1.
C7_Witness ==
    /\ ppc = "returned"
    /\ topology.world_size = 2
    /\ \E x, y \in ShardPositions(plan) :
          /\ ShardAt(plan, x) = [rank |-> -1, perf |-> 2]
          /\ ShardAt(plan, y) = [rank |-> 1, perf |-> 2]
    /\ result = 4

\* The permutations of 1..n.
Perms(n) == {f \in [1..n -> 1..n] : \A a, b \in 1..n : f[a] = f[b] => a = b}

\* p with its sharding options permuted.
OptionOrders(p) == {[k \in 1..Len(p) |-> p[f[k]]] : f \in Perms(Len(p))}

\* p with the shards of one sharding option permuted.
ShardOrders(p) ==
    UNION {{[p EXCEPT ![i].shards = [k \in 1..Len(p[i].shards) |-> p[i].shards[f[k]]]] :
                f \in Perms(Len(p[i].shards))} : i \in 1..Len(p)}

Without(s, j) == SubSeq(s, 1, j - 1) \o SubSeq(s, j + 1, Len(s))

Inserted(s, k, e) == SubSeq(s, 1, k - 1) \o <<e>> \o SubSeq(s, k, Len(s))

\* p with one shard moved from a sharding option to any place of another.
ShardMoves(p) ==
    {[p EXCEPT ![x[1]].shards = Without(p[x[1]].shards, x[2]),
               ![i].shards = Inserted(p[i].shards, k, ShardAt(p, x))] :
        <<x, i, k>> \in
            {y \in ShardPositions(p) \X (1..Len(p)) \X (1..(MaxShards + 1)) :
                y[2] # y[1][1] /\ y[3] <= Len(p[y[2]].shards) + 1}}

\* C8: with in-range ranks, the value rate returns is that of the plan with
\* its sharding options permuted, with the shards of a sharding option
\* permuted, and with a shard moved to another sharding option.
C8_RateIgnoresOrderAndGrouping ==
    (ppc = "returned" /\ RanksInRange(topology, plan))
        => \A q \in OptionOrders(plan) \cup ShardOrders(plan) \cup ShardMoves(plan) :
              rate(topology, q).ok /\ rate(topology, q).value = result

\* A call returned for a plan of two sharding options that differ, one of
\* them with two shards that differ, on one worker.
C8_Witness ==
    /\ ppc = "returned"
    /\ RanksInRange(topology, plan)
    /\ Len(plan) = 2
    /\ Len(plan[1].shards) = 2
    /\ Len(plan[2].shards) = 0
    /\ plan[1].shards[1].rank = plan[1].shards[2].rank
    /\ plan[1].shards[1].perf # plan[1].shards[2].perf

\* The sharding options of non-negative perfs and ranks in range for t.
GoodOptions(t) ==
    {[shards |-> s] :
        s \in SeqsUpTo([rank : 0..(t.world_size - 1),
                        perf : {v \in PerfValues : v >= 0}], 2)}

\* C9: with non-negative perfs and in-range ranks, the value rate returns is
\* at least every shard's perf, at most the sum of all the perfs, and times
\* world_size at least that sum; a sharding option appended never lowers it.
C9_RateIsBottleneck ==
    (ppc = "returned" /\ RanksInRange(topology, plan) /\ NonNegativePerfs(plan))
        => /\ \A x \in ShardPositions(plan) : result >= ShardAt(plan, x).perf
           /\ result <= PerfSum(plan, ShardPositions(plan))
           /\ result * topology.world_size >= PerfSum(plan, ShardPositions(plan))
           /\ \A o \in GoodOptions(topology) :
                 /\ rate(topology, Append(plan, o)).ok
                 /\ rate(topology, Append(plan, o)).value >= result

\* A call returned 2 for two shards of non-negative perfs on two workers:
\* more than one shard's perf, less than the sum of the perfs.
C9_Witness ==
    /\ ppc = "returned"
    /\ topology.world_size = 2
    /\ RanksInRange(topology, plan)
    /\ NonNegativePerfs(plan)
    /\ Cardinality(ShardPositions(plan)) = 2
    /\ PerfSum(plan, ShardPositions(plan)) = 4
    /\ result = 2



\* ------------------------------------------------------------------------
\* Properties of SimpleDeepFMNN and FMInteractionArch
\* ------------------------------------------------------------------------

\* __init__ has returned: the four archs exist.
Constructed == archs.over_arch.built

\* __init__ has raised.
CtorFailed == fpc = "failed" /\ ~Constructed

\* __init__ has got past the loop that compares the dimensions.
PastDimCheck == fpc \in {"features", "build"} \/ Constructed

AllSameDim(cfgs) ==
    \A a, b \in 1..Len(cfgs) : cfgs[a].embedding_dim = cfgs[b].embedding_dim

\* C3, as stated: whatever the number of sparse feature names, what
\* FMInteractionArch.forward returns for dense_features of size B X D is of
\* size B X (D + DI + 1).
C3_InterArchGivesDPlusDIPlusOne ==
    fpc = "over" =>
        concatenated_dense =
            [rows |-> embedded_dense.rows,
             cols |-> embedded_dense.cols
                          + archs.inter_arch.deep_fm_dimension + 1]

\* C4, as stated: forward of every constructed SimpleDeepFMNN returns logits
\* of size B X 1, the tensor that inter_arch gives being as wide as the
\* in_features of over_arch.
C4_ForwardGivesLogits ==
    /\ fpc = "over" => concatenated_dense.cols = archs.over_arch.in_features
    /\ (Constructed /\ fpc \in {"done", "failed"})
          => /\ fpc = "done"
             /\ logits = [rows |-> dense_features.rows, cols |-> 1]

\* C5: a non-empty list of configs gets past the loop over the adjacent
\* pairs exactly when all its configs have the same embedding_dim; a list
\* with two that differ, adjacent or not, is rejected with the assertion
\* error of the loop, and no arch exists then.
C5_DimCheckAcceptsOnlyEqualDims ==
    /\ PastDimCheck => AllSameDim(configs)
    /\ (CtorFailed /\ ~AllSameDim(configs)) => ferror = SameDimensionMsg
    /\ ferror = SameDimensionMsg => ~AllSameDim(configs) /\ archs = NoArchs

\* Three configs, the first two of the same dimension and the third of
\* another: the first and the third are not adjacent, and the list is
\* rejected.
C5_Witness ==
    /\ CtorFailed
    /\ ferror = SameDimensionMsg
    /\ Len(configs) = 3
    /\ configs[1].embedding_dim = configs[2].embedding_dim
    /\ configs[1].embedding_dim # configs[3].embedding_dim

\* C6: the constructor fails with "At least one embedding bag is required"
\* exactly when the collection has no config, and it has read no config
\* when it makes that check.
C6_EmptyCollectionRejectedFirst ==
    /\ fpc = "assert_nonempty" => reads = {}
    /\ (fpc \notin {"new", "assert_nonempty"} /\ Len(configs) = 0)
          => CtorFailed /\ ferror = AtLeastOneMsg
    /\ ferror = AtLeastOneMsg
          => Len(configs) = 0 /\ reads = {} /\ archs = NoArchs

\* An empty collection was rejected.
C6_Witness ==
    /\ CtorFailed
    /\ ferror = AtLeastOneMsg
    /\ Len(configs) = 0

=============================================================================
